---------------------------- MODULE Spec2Model ----------------------------
(***************************************************************************)
(* Model of supervoxel_loss/supervoxel_affinity_3d.py.                     *)
(*                                                                         *)
(* Two specifications share the module:                                    *)
(*   Spec      one forward call of SuperVoxelAffinity: the submission of   *)
(*             the 2*B critical-detection tasks to the process pool, their *)
(*             completion in any order, the as_completed accumulation, the *)
(*             exit of the "with" block and the loss loop.                 *)
(*   SpecPair  the helpers get_pair, get_aff and Decoder.forward           *)
(*             applied to bounded label volumes and offsets.               *)
(*                                                                         *)
(* Arithmetic is exact.  A mask value is kept in units of 1/BetaDen, a     *)
(* stats value in units of 1/len(preds), alpha in units of 1/AlphaDen and  *)
(* the loss as a fraction [num, den]; floating-point rounding is not       *)
(* modelled.                                                               *)
(***************************************************************************)
EXTENDS Integers, Sequences, FiniteSets, TLC

VARIABLES
    alpha,          \* self.alpha, numerator over AlphaDen
    beta,           \* self.beta, numerator over BetaDen
    edges,          \* self.edges (and self.decoder.edges), a sequence of offsets
    pc,             \* position of the forward call
    num_channels,   \* pred_affs.size(-4)
    target_labels,  \* example i's label volume (targets[i, 0, ...])
    tasks,          \* the futures in "processes", by position in the list
    yielded,        \* the futures as_completed has yielded so far
    masks,          \* masks[i] of get_critical_masks, units of 1/BetaDen
    stats,          \* stats of get_critical_masks, units of 1/len(preds)
    outcome,        \* how the forward call ended
    ret_loss,       \* the loss forward returned: <<>> or <<loss>>
    ret_stats,      \* the stats forward returned: <<>> or <<stats>>
    p_op,           \* SpecPair: the helper that was called
    p_labels,       \* SpecPair: its volume argument
    p_edge,         \* SpecPair: its edge argument (get_pair, get_aff)
    p_chan,         \* SpecPair: channel count and index (Decoder.forward)
    p_res           \* SpecPair: what the call produced

fvars == <<alpha, beta, edges, pc, num_channels, target_labels, tasks,
           yielded, masks, stats, outcome, ret_loss, ret_stats>>
pvars == <<p_op, p_labels, p_edge, p_chan, p_res>>
vars  == <<fvars, pvars>>

---------------------------------------------------------------------------
(* Bounds *)

BatchSize   == 2      \* examples in the batch of the forward call
MaxCount    == 1      \* largest n_criticals a detection reports
BetaDen     == 2      \* beta ranges over 0/BetaDen .. BetaDen/BetaDen
AlphaDen    == 1      \* alpha ranges over 0/AlphaDen .. AlphaDen/AlphaDen
MaxChannels == 2      \* largest channel count of pred_affs
MaxLen      == 3      \* SpecPair: longest axis of a volume
MaxOff      == 4      \* SpecPair: largest offset component, in magnitude

FwdShape == <<2, 1, 1>>          \* spatial shape of the forward call's volumes
Labels   == {0, 1, 2}            \* label values: background and two objects

None == "None"

Max(a, b) == IF a >= b THEN a ELSE b
Min(a, b) == IF a <= b THEN a ELSE b
Abs(a)    == IF a >= 0 THEN a ELSE -a

---------------------------------------------------------------------------
(* Arrays.  A volume is [shape, val]: val maps 0-based index triples to     *)
(* values.                                                                 *)

Idx(shape) == (0 .. shape[1] - 1) \X (0 .. shape[2] - 1) \X (0 .. shape[3] - 1)

Volumes(shape, values) == { [shape |-> shape, val |-> f] : f \in [Idx(shape) -> values] }

Numel(v) == v.shape[1] * v.shape[2] * v.shape[3]

Zeros(shape) == [shape |-> shape, val |-> [x \in Idx(shape) |-> 0]]

\* Python's a[start:stop] on an axis of length n: a negative bound counts
\* from the end, both bounds are clamped to 0..n, an inverted range is empty.
PyBound(k, n) == IF k < 0 THEN Max(k + n, 0) ELSE Min(k, n)

PySlice(start, stop, n) ==
    LET lo == PyBound(start, n)
        hi == PyBound(stop, n)
    IN  [lo |-> lo, len |-> Max(hi - lo, 0)]

\* The sub-volume of labels that starts at lo and has shape sh.
Window(labels, lo, sh) ==
    [shape |-> sh,
     val   |-> [x \in Idx(sh) |-> labels.val[<<x[1] + lo[1], x[2] + lo[2], x[3] + lo[3]>>]]]

\* labels[..., start[0]:stop[0], start[1]:stop[1], start[2]:stop[2]]
Slice3(labels, start, stop) ==
    Window(labels,
           <<PySlice(start[1], stop[1], labels.shape[1]).lo,
             PySlice(start[2], stop[2], labels.shape[2]).lo,
             PySlice(start[3], stop[3], labels.shape[3]).lo>>,
           <<PySlice(start[1], stop[1], labels.shape[1]).len,
             PySlice(start[2], stop[2], labels.shape[2]).len,
             PySlice(start[3], stop[3], labels.shape[3]).len>>)

---------------------------------------------------------------------------
(* The helpers *)

Neg(edge) == <<-edge[1], -edge[2], -edge[3]>>

offset1(edge) == <<Max(edge[1], 0), Max(edge[2], 0), Max(edge[3], 0)>>
offset2(edge) == <<Max(-edge[1], 0), Max(-edge[2], 0), Max(-edge[3], 0)>>

Sub3(a, b) == <<a[1] - b[1], a[2] - b[2], a[3] - b[3]>>

\* get_pair: the two sub-volumes an edge relates.  No bound of the slices is
\* checked against the shape, so an offset larger than an axis reaches
\* Python's negative-index rule in PySlice.
get_pair(labels, edge) ==
    <<Slice3(labels, offset1(edge), Sub3(labels.shape, offset2(edge))),
      Slice3(labels, offset2(edge), Sub3(labels.shape, offset1(edge)))>>

\* Broadcasting of two shapes: per axis the sizes are equal or one of them is 1.
Broadcastable(s1, s2) == \A k \in 1..3 : s1[k] = s2[k] \/ s1[k] = 1 \/ s2[k] = 1

BroadcastShape(s1, s2) == [k \in 1..3 |-> IF s1[k] = 1 THEN s2[k] ELSE s1[k]]

\* The element of v that a broadcast result's index x reads.
BAt(v, x) == v.val[<<IF v.shape[1] = 1 THEN 0 ELSE x[1],
                     IF v.shape[2] = 1 THEN 0 ELSE x[2],
                     IF v.shape[3] = 1 THEN 0 ELSE x[3]>>]

\* (o1 == o2) & (o1 != 0) with the equality test dropped
AffTestNonzeroOnly(a, b) == IF a # 0 THEN 1 ELSE 0

\* ret = (o1 == o2) & (o1 != 0), one element, cast back to the labels' type
AffTest(a, b) == IF a = b /\ a # 0 THEN 1 ELSE 0

\* (o1 == o2) & (o1 != 0) on the two sub-volumes: [err, val].  The
\* comparison of two shapes that do not broadcast raises torch's RuntimeError.
Compare(o1, o2) ==
    IF ~Broadcastable(o1.shape, o2.shape)
    THEN [err |-> "RuntimeError", val |-> None]
    ELSE [err |-> None,
          val |-> [shape |-> BroadcastShape(o1.shape, o2.shape),
                   val   |-> [x \in Idx(BroadcastShape(o1.shape, o2.shape)) |->
                                AffTest(BAt(o1, x), BAt(o2, x))]]]

\* get_aff(labels, edge)
get_aff(labels, edge) == Compare(get_pair(labels, edge)[1], get_pair(labels, edge)[2])

\* get_pair_first: shape and offsets are computed from "labels", then the
\* slice is taken of "arr", a name bound nowhere in the function or the
\* module: every call raises NameError.
get_pair_first(labels, edge) == [err |-> "NameError", val |-> None]

\* Decoder.forward without its first assertion
Decoder_forward_unchecked(decoder_edges, x, i) ==
    IF ~(i < x.size /\ i >= 0)
    THEN [err |-> "AssertionError", val |-> None]
    ELSE get_pair_first(x.chan[i], decoder_edges[i + 1])

\* Decoder.forward(x, i).  x is [size, chan]: chan[c] is channel c's volume;
\* decoder_edges is self.edges (a sequence, so edge i is at i + 1).
Decoder_forward(decoder_edges, x, i) ==
    IF x.size # Len(decoder_edges)
    THEN [err |-> "AssertionError", val |-> None]
    ELSE IF ~(i < x.size /\ i >= 0)
    THEN [err |-> "AssertionError", val |-> None]
    ELSE get_pair_first(x.chan[i], decoder_edges[i + 1])

---------------------------------------------------------------------------
(* get_critical_masks *)

Examples == 0 .. BatchSize - 1

BinaryMasks == Volumes(FwdShape, {0, 1})

Flagged(mask) == Cardinality({x \in Idx(mask.shape) : mask.val[x] = 1})

\* detect_critical(target, pred) of critical_detection_3d: a binary mask of
\* the voxels in some critical component, and the number of components.
\* Its result is left open: any mask of the volume's shape with a count that
\* is zero exactly when the mask is empty.
DetectResults ==
    { r \in [mask : BinaryMasks, n : 0 .. MaxCount] :
        /\ (r.n = 0) <=> (Flagged(r.mask) = 0)
        /\ r.n <= Flagged(r.mask) }

\* The future executor.submit returns for get_critical_mask(.., i, type)
Future(i, type) ==
    [st |-> "pending", process_id |-> i, critical_type |-> type,
     mask |-> Zeros(FwdShape), n |-> 0]

\* What the submission loop submits at position k of "processes" (1-based):
\* for each i the split task (type -1), then the merge task (type 1).
Submission(k) == Future((k - 1) \div 2, IF k % 2 = 1 THEN -1 ELSE 1)

\* get_critical_mask in the worker: the detection's result, tagged with the
\* process_id and critical_type it was called with.
get_critical_mask(future, r) ==
    [future EXCEPT !.st = "done", !.mask = r.mask, !.n = r.n]

\* as_completed yields a future once it has finished, with a result or with
\* an exception, and yields no future twice.
Finished(future) == future.st \in {"done", "failed"}

ReadyAnyState(future) == TRUE

Ready(future) == Finished(future)

\* process.result() re-raises the exception of a failed task.
ResultSwallows(future) == FALSE

ResultRaises(future) == future.st = "failed"

\* masks[i, ...] += weight * mask_i
AddScaled(vol, weight, mask) ==
    [vol EXCEPT !.val = [x \in Idx(vol.shape) |-> vol.val[x] + weight * mask.val[x]]]

\* The loop body with the result added to the slot of the position in the
\* completion order instead of the slot of its process_id
AccumulateByOrder(m, s, res, order) ==
    LET i == order % BatchSize
    IN  IF res.critical_type = -1
        THEN [masks |-> [m EXCEPT ![i] = AddScaled(m[i], beta, res.mask)],
              stats |-> [s EXCEPT !.Splits = @ + res.n]]
        ELSE [masks |-> [m EXCEPT ![i] = AddScaled(m[i], BetaDen - beta, res.mask)],
              stats |-> [s EXCEPT !.Merges = @ + res.n]]

\* The body of the as_completed loop for one result
\* (i, mask_i, n_criticals, critical_type).  "order" is the number of results
\* accumulated before this one; the code does not read it.
Accumulate(m, s, res, order) ==
    LET i == res.process_id
    IN  IF res.critical_type = -1
        THEN [masks |-> [m EXCEPT ![i] = AddScaled(m[i], beta, res.mask)],
              stats |-> [s EXCEPT !.Splits = @ + res.n]]
        ELSE [masks |-> [m EXCEPT ![i] = AddScaled(m[i], BetaDen - beta, res.mask)],
              stats |-> [s EXCEPT !.Merges = @ + res.n]]

---------------------------------------------------------------------------
(* The loss loop of forward *)

\* pred_affs[i, ...]: num_channels channels of shape FwdShape.  The values
\* are one fixed pattern of 0 and 1 over example, channel and position.
PredAffs(i) ==
    [size |-> num_channels,
     chan |-> [c \in 0 .. num_channels - 1 |->
                 [shape |-> FwdShape,
                  val   |-> [x \in Idx(FwdShape) |-> (i + c + x[1]) % 2]]]]

\* self.criterion(pred, target) on one element, unreduced: the absolute
\* error stands for the elementwise criterion the object was built with.
criterion(p, t) == Abs(p - t)

\* Position n of a volume of the given shape in row-major order.
Unflat(shape, n) ==
    <<n \div (shape[2] * shape[3]), (n \div shape[3]) % shape[2], n % shape[3]>>

\* The sum of f over the index set of a volume of the given shape.
SumOver(shape, f) ==
    LET numel == shape[1] * shape[2] * shape[3]
        upto[n \in 0 .. numel] ==
            IF n = 0 THEN 0 ELSE upto[n - 1] + f[Unflat(shape, n - 1)]
    IN  upto[numel]

\* Fractions [num, den]; den = 0 is the mean of no element (nan).
FracAdd(a, b) == [num |-> a.num * b.den + b.num * a.den, den |-> a.den * b.den]
FracEq(a, b)  == a.num * b.den = b.num * a.den /\ (a.den = 0 <=> b.den = 0)

\* ((1 - alpha) * loss_j + alpha * mask_aff_j * loss_j).mean() with
\* loss_j = criterion(pred_affs_j, target_affs_j): the numerator is in units
\* of 1/AlphaDen, the denominator is the number of elements.
WeightedMean(pred_affs_j, target_affs_j, mask_aff_j) ==
    LET both == [x \in Idx(target_affs_j.shape) |->
                   (AlphaDen - alpha) * criterion(pred_affs_j.val[x], target_affs_j.val[x])
                     + alpha * mask_aff_j.val[x]
                         * criterion(pred_affs_j.val[x], target_affs_j.val[x])]
    IN  [num |-> SumOver(target_affs_j.shape, both),
         den |-> AlphaDen * Numel(target_affs_j)]

\* The statements of one pass after the three calls: the first error among
\* them ends the pass.  An elementwise operation on two different shapes is
\* taken to raise.
PassResult(pred_affs_j, target_affs_j, mask_aff_j) ==
    IF pred_affs_j.err # None THEN [err |-> pred_affs_j.err, term |-> None]
    ELSE IF target_affs_j.err # None THEN [err |-> target_affs_j.err, term |-> None]
    ELSE IF mask_aff_j.err # None THEN [err |-> mask_aff_j.err, term |-> None]
    ELSE IF pred_affs_j.val.shape # target_affs_j.val.shape
    THEN [err |-> "RuntimeError", term |-> None]
    ELSE [err  |-> None,
          term |-> WeightedMean(pred_affs_j.val, target_affs_j.val, mask_aff_j.val)]

\* One pass of the inner loop, for example i and edge j (1-based): the
\* decoder, then get_aff of the target, then get_aff of the mask.
\* m is masks[i].
LossTerm(m, i, j) ==
    PassResult(Decoder_forward(edges, PredAffs(i), j - 1),
               get_aff(target_labels[i], edges[j]),
               get_aff(m, edges[j]))

\* The running total after one more pass, or the error that ended the loop.
AfterPass(before, r) ==
    IF before.err # None THEN before
    ELSE IF r.err # None THEN [err |-> r.err, loss |-> None]
    ELSE [err |-> None, loss |-> FracAdd(before.loss, r.term)]

\* The two nested loops: after[k] is the state after k passes (i outer, j
\* inner), starting from loss = 0.
LossLoopResult(m) ==
    LET after[k \in 0 .. BatchSize * Len(edges)] ==
            IF k = 0 THEN [err |-> None, loss |-> [num |-> 0, den |-> 1]]
            ELSE AfterPass(after[k - 1],
                           LossTerm(m[(k - 1) \div Len(edges)],
                                    (k - 1) \div Len(edges),
                                    ((k - 1) % Len(edges)) + 1))
    IN  after[BatchSize * Len(edges)]

---------------------------------------------------------------------------
(* One forward call *)

\* The edge lists an object is built with: the first n of two opposite edges.
FwdEdges == <<<<1, 0, 0>>, <<-1, 0, 0>>>>
EdgeLists == { SubSeq(FwdEdges, 1, n) : n \in 1 .. Min(MaxChannels, Len(FwdEdges)) }

\* The target volumes of the batch: one object, or two objects, per example.
TargetVolumes == { v \in Volumes(FwdShape, Labels) : v.val[<<0, 0, 0>>] = 1 /\ v.val[<<1, 0, 0>>] # 0 }

PairIdle ==
    /\ p_op = None /\ p_labels = None /\ p_edge = None /\ p_chan = None /\ p_res = None

\* After __init__ and at the call of forward(pred_affs, target_labels).
Init ==
    /\ alpha \in 0 .. AlphaDen
    /\ beta \in 0 .. BetaDen
    /\ edges \in EdgeLists
    /\ num_channels \in 1 .. MaxChannels
    /\ \E v \in TargetVolumes : target_labels = [i \in Examples |-> v]
    /\ pc = "start"
    /\ tasks = <<>>
    /\ yielded = {}
    /\ masks = None
    /\ stats = None
    /\ outcome = None
    /\ ret_loss = <<>>
    /\ ret_stats = <<>>
    /\ PairIdle

\* forward up to the "with" statement: get_pred_labels decodes the batch
\* serially, get_critical_masks creates processes, stats and masks.
Start ==
    /\ pc = "start"
    /\ pc' = "submit"
    /\ tasks' = <<>>
    /\ stats' = [Splits |-> 0, Merges |-> 0]
    /\ masks' = [i \in Examples |-> Zeros(FwdShape)]
    /\ UNCHANGED <<alpha, beta, edges, num_channels, target_labels, yielded,
                   outcome, ret_loss, ret_stats, pvars>>

\* One executor.submit of the submission loop; after the last one control
\* reaches the as_completed loop.
Submit ==
    /\ pc = "submit"
    /\ Len(tasks) < 2 * BatchSize
    /\ tasks' = Append(tasks, Submission(Len(tasks) + 1))
    /\ pc' = IF Len(tasks') = 2 * BatchSize THEN "collect" ELSE "submit"
    /\ UNCHANGED <<alpha, beta, edges, num_channels, target_labels, yielded,
                   masks, stats, outcome, ret_loss, ret_stats, pvars>>

\* A worker process finishes a submitted task with a result.
WorkerFinish(t) ==
    /\ tasks[t].st = "pending"
    /\ \E r \in DetectResults : tasks' = [tasks EXCEPT ![t] = get_critical_mask(@, r)]
    /\ UNCHANGED <<alpha, beta, edges, pc, num_channels, target_labels, yielded,
                   masks, stats, outcome, ret_loss, ret_stats, pvars>>

\* A worker process fails a submitted task: its future holds an exception.
WorkerFail(t) ==
    /\ tasks[t].st = "pending"
    /\ tasks' = [tasks EXCEPT ![t].st = "failed"]
    /\ UNCHANGED <<alpha, beta, edges, pc, num_channels, target_labels, yielded,
                   masks, stats, outcome, ret_loss, ret_stats, pvars>>

\* One pass of "for process in as_completed(processes)": a finished future
\* not yet yielded is yielded; process.result() either raises, which leaves
\* the loop for the exit of the "with" block, or gives the result, which is
\* accumulated.
Collect(t) ==
    /\ pc = "collect"
    /\ t \notin yielded
    /\ Ready(tasks[t])
    /\ yielded' = yielded \cup {t}
    /\ IF ResultRaises(tasks[t])
       THEN /\ pc' = "shutdown"
            /\ UNCHANGED <<masks, stats>>
       ELSE LET acc == Accumulate(masks, stats, tasks[t], Cardinality(yielded))
            IN  /\ masks' = acc.masks
                /\ stats' = acc.stats
                /\ pc' = pc
    /\ UNCHANGED <<alpha, beta, edges, num_channels, target_labels, tasks,
                   outcome, ret_loss, ret_stats, pvars>>

\* The exit of the "with" block with an exception in flight:
\* executor.shutdown(wait=True) returns when every submitted task has
\* finished, then the exception leaves get_critical_masks and forward.
Shutdown ==
    /\ pc = "shutdown"
    /\ \A t \in 1 .. Len(tasks) : Finished(tasks[t])
    /\ pc' = "done"
    /\ outcome' = "WorkerError"
    /\ UNCHANGED <<alpha, beta, edges, num_channels, target_labels, tasks, yielded,
                   masks, stats, ret_loss, ret_stats, pvars>>

\* The as_completed loop has yielded every future: the "with" block exits
\* and get_critical_masks returns toGPU(masks), stats to forward.
Return ==
    /\ pc = "collect"
    /\ yielded = 1 .. Len(tasks)
    /\ pc' = "loss"
    /\ UNCHANGED <<alpha, beta, edges, num_channels, target_labels, tasks, yielded,
                   masks, stats, outcome, ret_loss, ret_stats, pvars>>

\* forward's return: the error leaves forward, or loss and stats return.
ForwardEnds(r) ==
    /\ outcome' = IF r.err # None THEN r.err ELSE "ok"
    /\ ret_loss' = IF r.err # None THEN ret_loss ELSE <<r.loss>>
    /\ ret_stats' = IF r.err # None THEN ret_stats ELSE <<stats>>

\* The loss loop of forward and its return statement.
LossLoop ==
    /\ pc = "loss"
    /\ ForwardEnds(LossLoopResult(masks))
    /\ pc' = "done"
    /\ UNCHANGED <<alpha, beta, edges, num_channels, target_labels, tasks, yielded,
                   masks, stats, pvars>>

Next ==
    \/ Start
    \/ Submit
    \/ \E t \in 1 .. Len(tasks) : WorkerFinish(t)
    \/ \E t \in 1 .. Len(tasks) : WorkerFail(t)
    \/ \E t \in 1 .. Len(tasks) : Collect(t)
    \/ Shutdown
    \/ Return
    \/ LossLoop

Spec == Init /\ [][Next]_vars

---------------------------------------------------------------------------
(* The helpers on their own: one call of get_aff (and the get_pair call in  *)
(* it) or of Decoder.forward, on a bounded volume.                          *)

\* The shapes of the volumes: one row of up to MaxLen voxels along any axis.
PairShapes ==
    UNION { {<<n, 1, 1>>, <<1, n, 1>>, <<1, 1, n>>} : n \in 1 .. MaxLen }

PairVolumes == UNION { Volumes(sh, Labels) : sh \in PairShapes }

Offsets == (-MaxOff .. MaxOff) \X (-MaxOff .. MaxOff) \X (-MaxOff .. MaxOff)

\* A tensor of c channels for Decoder.forward: channel k holds the volume's
\* values moved up by k, so that the channels differ.
ChannelsOf(labels, c) ==
    [size |-> c,
     chan |-> [k \in 0 .. c - 1 |->
                 [labels EXCEPT !.val = [x \in Idx(labels.shape) |-> labels.val[x] + k]]]]

InitPair ==
    /\ alpha = 0
    /\ beta = 0
    /\ edges = FwdEdges
    /\ num_channels = Len(edges)
    /\ target_labels = None
    /\ pc = "idle"
    /\ tasks = <<>>
    /\ yielded = {}
    /\ masks = None
    /\ stats = None
    /\ outcome = None
    /\ ret_loss = <<>>
    /\ ret_stats = <<>>
    /\ p_op = None
    /\ p_labels \in PairVolumes
    /\ p_edge = None
    /\ p_chan = None
    /\ p_res = None

\* get_aff(p_labels, e).  The call's result is [err, val]; "pair" keeps the
\* two sub-volumes its get_pair call returned.
CallGetAff(e) ==
    /\ p_op = None
    /\ p_op' = "get_aff"
    /\ p_edge' = e
    /\ p_res' = [pair |-> get_pair(p_labels, e), aff |-> get_aff(p_labels, e)]
    /\ UNCHANGED <<fvars, p_labels, p_chan>>

\* self.decoder(x, i) on a tensor of c channels.
CallDecoder(c, i) ==
    /\ p_op = None
    /\ p_op' = "decoder"
    /\ p_chan' = [size |-> c, i |-> i]
    /\ p_res' = Decoder_forward(edges, ChannelsOf(p_labels, c), i)
    /\ UNCHANGED <<fvars, p_labels, p_edge>>

NextPair ==
    \/ \E e \in Offsets : CallGetAff(e)
    \/ \E c \in 1 .. MaxChannels, i \in -1 .. MaxChannels : CallDecoder(c, i)

SpecPair == InitPair /\ [][NextPair]_vars

---------------------------------------------------------------------------
(* Properties of get_critical_masks and forward, checked under Spec *)

AllTasks == 1 .. 2 * BatchSize

SomeTaskFailed == \E t \in 1 .. Len(tasks) : tasks[t].st = "failed"

\* The result of the task at position k of "processes" counts once it has
\* been yielded with a result.
Counted(k) == k \in yielded /\ tasks[k].st = "done"

Contribution(k, weight) ==
    IF Counted(k) THEN [x \in Idx(FwdShape) |-> weight * tasks[k].mask.val[x]]
    ELSE [x \in Idx(FwdShape) |-> 0]

CountOf(k) == IF Counted(k) THEN tasks[k].n ELSE 0

\* beta * split_mask_i + (1 - beta) * merge_mask_i over the results counted
\* so far: the split analysis of example i is submitted at position 2i + 1,
\* the merge analysis at position 2i + 2.
ExpectedMask(i) ==
    [shape |-> FwdShape,
     val   |-> [x \in Idx(FwdShape) |->
                  Contribution(2 * i + 1, beta)[x]
                    + Contribution(2 * i + 2, BetaDen - beta)[x]]]

ExpectedSplits == SumOver(<<BatchSize, 1, 1>>, [x \in Idx(<<BatchSize, 1, 1>>) |-> CountOf(2 * x[1] + 1)])
ExpectedMerges == SumOver(<<BatchSize, 1, 1>>, [x \in Idx(<<BatchSize, 1, 1>>) |-> CountOf(2 * x[1] + 2)])

\* C1: whatever the order in which the 2*B analyses complete and are
\* yielded, every result is added to the slot of its own example with the
\* weight of its own type and to the counter of its own type, and nowhere
\* else: at every moment masks[i] and stats are exactly the sums of the
\* results yielded so far, and when get_critical_masks returns,
\* masks[i] = beta * split_mask_i + (1 - beta) * merge_mask_i and
\* stats = {Splits: sum_i split_count_i / B, Merges: sum_i merge_count_i / B}.
C1_RoutedByTag ==
    /\ \A k \in 1 .. Len(tasks) :
          /\ tasks[k].process_id = (k - 1) \div 2
          /\ tasks[k].critical_type = (IF k % 2 = 1 THEN -1 ELSE 1)
    /\ pc # "start" =>
          /\ \A i \in Examples : masks[i] = ExpectedMask(i)
          /\ stats = [Splits |-> ExpectedSplits, Merges |-> ExpectedMerges]
    /\ pc = "loss" => \A k \in AllTasks : Counted(k)

\* C1 witness: get_critical_masks has returned a batch in which the two
\* examples and the two analysis types all differ, with 0 < beta < 1.
C1_Witness ==
    /\ pc = "loss"
    /\ beta \notin {0, BetaDen}
    /\ tasks[1].mask # tasks[2].mask
    /\ tasks[1].mask # tasks[3].mask
    /\ masks[0] # masks[1]
    /\ stats.Splits # stats.Merges
    /\ stats.Splits > 0

\* C2: once any worker task has failed, get_critical_masks never returns to
\* forward, the call ends with the worker's error and with no loss and no
\* stats, and no task is submitted a second time.
C2_FailFast ==
    /\ Len(tasks) <= 2 * BatchSize
    /\ SomeTaskFailed =>
          /\ pc # "loss"
          /\ outcome \in {None, "WorkerError"}
          /\ pc = "done" => outcome = "WorkerError"
          /\ ret_loss = <<>>
          /\ ret_stats = <<>>

\* C2 witness: the call has ended in the worker's error although another
\* task's result had already been accumulated.
C2_Witness ==
    /\ pc = "done"
    /\ outcome = "WorkerError"
    /\ \E t \in yielded : tasks[t].st = "failed"
    /\ \E t \in yielded : tasks[t].st = "done" /\ tasks[t].n > 0
    /\ ret_loss = <<>> /\ ret_stats = <<>>

\* The window [offset1 : shape - offset2] of a volume, the sub-volume the
\* decoder is documented to return for an edge.
EdgeWindow(labels, edge) ==
    Slice3(labels, offset1(edge), Sub3(labels.shape, offset2(edge)))

\* criterion(pred, target).mean() over one window, unweighted.
UnweightedMean(pred_affs_j, target_affs_j) ==
    [num |-> SumOver(target_affs_j.shape,
                     [x \in Idx(target_affs_j.shape) |->
                        criterion(pred_affs_j.val[x], target_affs_j.val[x])]),
     den |-> Numel(target_affs_j)]

\* The sum over every (example, edge) pair of the unweighted mean criterion
\* between the windowed channel and the target affinity.
UnweightedLoss ==
    LET after[k \in 0 .. BatchSize * Len(edges)] ==
            IF k = 0 THEN [num |-> 0, den |-> 1]
            ELSE FracAdd(after[k - 1],
                         UnweightedMean(
                             EdgeWindow(PredAffs((k - 1) \div Len(edges)).chan[(k - 1) % Len(edges)],
                                        edges[((k - 1) % Len(edges)) + 1]),
                             get_aff(target_labels[(k - 1) \div Len(edges)],
                                     edges[((k - 1) % Len(edges)) + 1]).val))
    IN  after[BatchSize * Len(edges)]

\* C3: with alpha = 0 a forward call on well-formed input returns a loss,
\* and that loss is the sum over all (example, edge) pairs of the
\* unweighted mean criterion, whatever the critical masks were.
C3_AlphaZeroLoss ==
    (pc = "done" /\ alpha = 0 /\ num_channels = Len(edges) /\ ~SomeTaskFailed)
        => /\ outcome = "ok"
           /\ ret_loss # <<>>
           /\ FracEq(ret_loss[1], UnweightedLoss)

\* C7 as stated: no execution dispatches a task and raises the
\* configuration error afterwards.
C7_ErrorBeforeDispatch == ~(outcome = "AssertionError" /\ Len(tasks) > 0)

\* C7 amended: a channel count that differs from the number of edges is
\* detected by the decoder's assertion in the first pass of the loss loop.
\* The error is raised only after all 2*B tasks were submitted, finished and
\* yielded; unless a worker task failed first it is how the call ends; and
\* such a call returns no loss.
C7_ErrorAfterCollection ==
    /\ outcome = "AssertionError" =>
          /\ Len(tasks) = 2 * BatchSize
          /\ \A t \in AllTasks : tasks[t].st = "done" /\ t \in yielded
    /\ (pc = "done" /\ num_channels # Len(edges) /\ ~SomeTaskFailed) =>
          outcome = "AssertionError"
    /\ num_channels # Len(edges) => (outcome # "ok" /\ ret_loss = <<>>)

\* C7 witness: the assertion error was raised, after the whole batch of
\* tasks had run.
C7_Witness ==
    /\ pc = "done"
    /\ outcome = "AssertionError"
    /\ num_channels # Len(edges)
    /\ Len(tasks) = 2 * BatchSize

\* C8 as stated: no result has been accumulated while another task of the
\* batch is still to be submitted or still pending.
C8_ReduceAfterAll ==
    (\E t \in yielded : tasks[t].st = "done")
        => /\ Len(tasks) = 2 * BatchSize
           /\ \A t \in AllTasks : Finished(tasks[t])

\* C8 amended: results are accumulated one at a time as their tasks
\* finish, possibly while other tasks are still pending.  Accumulation
\* starts only after all 2*B tasks were submitted, a future is yielded only
\* once its own task has finished, and get_critical_masks returns masks and
\* stats only after every task has finished and been accumulated.
C8_ReduceAsCompleted ==
    /\ \A t \in yielded : t \in 1 .. Len(tasks) /\ Finished(tasks[t])
    /\ yielded # {} => Len(tasks) = 2 * BatchSize
    /\ (pc = "loss" \/ outcome \notin {None, "WorkerError"}) =>
          /\ yielded = AllTasks
          /\ \A t \in AllTasks : tasks[t].st = "done"

\* C8 witness: a result is already in masks and stats while another task of
\* the batch is still pending.
C8_Witness ==
    /\ pc = "collect"
    /\ \E t \in yielded : tasks[t].st = "done" /\ tasks[t].n > 0 /\ stats.Splits + stats.Merges > 0
    /\ \E t \in AllTasks : tasks[t].st = "pending"

\* 1 when the two voxels an edge relates at window position x carry equal
\* and nonzero critical-mask values, else 0.
Upweight(mask, edge, x) ==
    IF /\ mask.val[<<x[1] + offset1(edge)[1], x[2] + offset1(edge)[2], x[3] + offset1(edge)[3]>>]
            = mask.val[<<x[1] + offset2(edge)[1], x[2] + offset2(edge)[2], x[3] + offset2(edge)[3]>>]
       /\ mask.val[<<x[1] + offset1(edge)[1], x[2] + offset1(edge)[2], x[3] + offset1(edge)[3]>>] # 0
    THEN 1 ELSE 0

\* The mean over one window of (1 - alpha) * loss + alpha * upweight * loss.
UpweightedMean(pred_affs_j, target_affs_j, mask, edge) ==
    [num |-> SumOver(target_affs_j.shape,
                     [x \in Idx(target_affs_j.shape) |->
                        (AlphaDen - alpha) * criterion(pred_affs_j.val[x], target_affs_j.val[x])
                          + alpha * Upweight(mask, edge, x)
                              * criterion(pred_affs_j.val[x], target_affs_j.val[x])]),
     den |-> AlphaDen * Numel(target_affs_j)]

UpweightedLoss ==
    LET after[k \in 0 .. BatchSize * Len(edges)] ==
            IF k = 0 THEN [num |-> 0, den |-> 1]
            ELSE FracAdd(after[k - 1],
                         UpweightedMean(
                             EdgeWindow(PredAffs((k - 1) \div Len(edges)).chan[(k - 1) % Len(edges)],
                                        edges[((k - 1) % Len(edges)) + 1]),
                             get_aff(target_labels[(k - 1) \div Len(edges)],
                                     edges[((k - 1) % Len(edges)) + 1]).val,
                             masks[(k - 1) \div Len(edges)],
                             edges[((k - 1) % Len(edges)) + 1]))
    IN  after[BatchSize * Len(edges)]

\* C10: a forward call on well-formed input returns a loss in which a voxel
\* pair is upweighted (its criterion value counted with weight 1 instead of
\* 1 - alpha) exactly when its two voxels have equal and nonzero
\* critical-mask values; every other pair contributes (1 - alpha) * loss.
C10_UpweightEqualNonzero ==
    (pc = "done" /\ num_channels = Len(edges) /\ ~SomeTaskFailed)
        => /\ outcome = "ok"
           /\ ret_loss # <<>>
           /\ FracEq(ret_loss[1], UpweightedLoss)

---------------------------------------------------------------------------
(* Properties of the helpers, checked under SpecPair *)

\* Every component of the offset is within the axis length.
Within(labels, edge) == \A k \in 1..3 : Abs(edge[k]) <= labels.shape[k]

Oversize(labels, edge) == \E k \in 1..3 : Abs(edge[k]) > labels.shape[k]

\* C4: for a tensor whose channel count equals the number of edges and an
\* index within the channels, Decoder.forward returns channel i restricted
\* to the window [offset1 : shape - offset2] of edges[i], which has the
\* shape of get_aff of a target of the same spatial shape.
C4_DecoderWindow ==
    (p_op = "decoder" /\ p_chan.size = Len(edges) /\ p_chan.i \in 0 .. p_chan.size - 1)
        => /\ p_res.err = None
           /\ p_res.val = EdgeWindow(ChannelsOf(p_labels, p_chan.size).chan[p_chan.i],
                                     edges[p_chan.i + 1])
           /\ p_res.val.shape = get_aff(p_labels, edges[p_chan.i + 1]).val.shape

\* C5: for every volume and every integer offset, get_pair returns two
\* arrays of identical shape, and on every axis where shape(L) - |e| is a
\* length at all (not negative) that shape is shape(L) - |e|.
C5_PairShape ==
    p_op = "get_aff"
        => /\ p_res.pair[1].shape = p_res.pair[2].shape
           /\ \A k \in 1..3 :
                 p_labels.shape[k] - Abs(p_edge[k]) >= 0
                    => p_res.pair[1].shape[k] = p_labels.shape[k] - Abs(p_edge[k])

\* C6: for an offset with a component larger than its axis, the extractor
\* fails with a shape error and returns nothing.
C6_OversizeFails ==
    (p_op = "get_aff" /\ Oversize(p_labels, p_edge)) => p_res.aff.err # None

\* C9: for an offset within the axis lengths, get_pair of the negated offset
\* returns the same two sub-volumes swapped, and get_aff gives the same map
\* for the offset and for its negation, element for element.
C9_NegationSymmetry ==
    (p_op = "get_aff" /\ Within(p_labels, p_edge))
        => /\ get_pair(p_labels, Neg(p_edge)) = <<p_res.pair[2], p_res.pair[1]>>
           /\ p_res.aff.err = None
           /\ get_aff(p_labels, Neg(p_edge)) = p_res.aff

\* C9 witness: get_aff returned a map with a connected and an unconnected
\* pair for a nonzero offset within the volume.
C9_Witness ==
    /\ p_op = "get_aff"
    /\ Within(p_labels, p_edge)
    /\ p_edge # <<0, 0, 0>>
    /\ p_res.aff.err = None
    /\ \E x \in Idx(p_res.aff.val.shape) : p_res.aff.val.val[x] = 1
    /\ \E x \in Idx(p_res.aff.val.shape) : p_res.aff.val.val[x] = 0

=============================================================================
